---- MODULE Spec2Model ----
(***************************************************************************)
(* The four documentation notebooks of the repository as one state         *)
(* machine: a Jupyter kernel runs the code cells of one notebook, the      *)
(* cells decorate electrons and lattices, dispatch a lattice, block in     *)
(* get_result and display what came back; the dispatcher executes the      *)
(* transport graph the lattice body builds.                                *)
(*                                                                         *)
(*   "s3"   doc/source/how_to/coding/file_transfers_to_from_s3.ipynb       *)
(*   "exec" doc/source/how_to/execution/choosing_executors.ipynb           *)
(*   "yt"   unnamed/part_000 (YouTube summarisation, Streamlit front end)  *)
(*   "pl"   doc/source/tutorials/.../pennylane_hybrid/source.ipynb         *)
(*                                                                         *)
(* The covalent package itself (ct.dispatch, ct.get_result, the            *)
(* dispatcher, executors, FileTransfer) is not among the source files; it  *)
(* is modelled from what the notebooks and the specification say about it. *)
(***************************************************************************)
EXTENDS Integers, Sequences, FiniteSets, TLC

----------------------------------------------------------------------------
(* Bounds of the model *)

\* dispatches one kernel session makes
MaxDispatch == 2
\* largest `steps` argument given to the PennyLane workflow
MaxSteps == 2

----------------------------------------------------------------------------
(* Values *)

Notebooks == {"s3", "exec", "yt", "pl"}

\* Python's None, and the contents of a file that does not exist
None == <<"None">>
Absent == <<>>

\* arguments the dispatch cells are run with
ExecInputs == {-1, 2, 3}
Urls == {"", "u1", "u2"}
Uploads == {None, <<"wav">>}
SourceImages == {<<"color">>, <<"color", "alpha">>}
StepInputs == 0..MaxSteps

Terminal == {"COMPLETED", "FAILED"}
NonTerminal == {"NEW_OBJECT", "RUNNING"}

----------------------------------------------------------------------------
(* Executors *)

Instance(cls) == [kind |-> "instance", cls |-> cls]
ShortName(n) == [kind |-> "name", name |-> n]
Unspecified == [kind |-> "default"]

\* executor1 = ct.executor.LocalExecutor()
executor1 == Instance("LocalExecutor")
\* executor = ct.executor.GCPBatchExecutor(...)
executor == Instance("GCPBatchExecutor")

\* the executor plugins by short name
PluginShortNames == [local |-> "LocalExecutor", dask |-> "DaskExecutor",
                     gcpbatch |-> "GCPBatchExecutor"]

\* the executor class a task runs on, from the electron's executor argument
ResolveExecutor(e) ==
  CASE e.kind = "instance" -> e.cls
    [] e.kind = "name" -> IF e.name \in DOMAIN PluginShortNames
                          THEN PluginShortNames[e.name] ELSE "unknown"
    [] OTHER -> "default"

----------------------------------------------------------------------------
(* File transfers *)

S3Path(bucket, p) == [scheme |-> "s3", bucket |-> bucket, filepath |-> p]
LocalPath(p) == [scheme |-> "file", bucket |-> "", filepath |-> p]

\* the store key of a file
Loc(f) == <<f.scheme, f.filepath>>

\* "order defaults to BEFORE"
DefaultOrder == "BEFORE"
FileTransfer(from, to, order) == [from |-> from, to |-> to, order |-> order]

unprocessed_filepath == LocalPath("/cwd/unprocessed_file.png")
processed_filepath == LocalPath("/cwd/processed_file.png")
s3_source_path == S3Path("covalent-howto-tmp", "/remote_unprocessed_file.png")
s3_dest_path == S3Path("covalent-howto-tmp", "/remote_processed_file.png")

\* ft_2 with the order argument left out
ft_2_no_order == FileTransfer(processed_filepath, s3_dest_path, DefaultOrder)

\* ft_1 built with order=AFTER
ft_1_after == FileTransfer(s3_source_path, unprocessed_filepath, "AFTER")

ft_1 == FileTransfer(s3_source_path, unprocessed_filepath, DefaultOrder)
\* ft_2 uploading over the source object
ft_2_to_source == FileTransfer(processed_filepath, s3_source_path, "AFTER")

ft_2 == FileTransfer(processed_filepath, s3_dest_path, "AFTER")

\* the `files` keyword argument injected into an electron: one
\* (source path, destination path) tuple per FileTransfer, the remote prefix
\* omitted
InjectFiles(fts) == [k \in DOMAIN fts |-> <<fts[k].from.filepath, fts[k].to.filepath>>]

speaker_wav == LocalPath("/cwd/speaker.wav")

Locations == {Loc(s3_source_path), Loc(s3_dest_path), Loc(unprocessed_filepath),
              Loc(processed_filepath), Loc(speaker_wav)}

----------------------------------------------------------------------------
(* Electrons and lattices: the decorated functions of the notebooks *)

In(a) == [src |-> "input", name |-> a]
Out(n) == [src |-> "node", name |-> n]
Const(c) == [src |-> "const", name |-> c]

Electron(ex, fts) == [executor |-> ex, files |-> fts]

\* to_grayscale decorated with files=[ft_2, ft_1]
electrons_s3_swapped == [to_grayscale |-> Electron(Unspecified, <<ft_2, ft_1>>)]

\* file_transfers_to_from_s3.ipynb
electrons_s3 == [to_grayscale |-> Electron(Unspecified, <<ft_1, ft_2>>)]

process_s3_data ==
  [order |-> <<"to_grayscale">>,
   args |-> [to_grayscale |-> <<>>],
   returns |-> <<Out("to_grayscale")>>, tuple |-> FALSE]

\* square decorated with the short name of another plugin
electrons_exec_dask ==
  [identity |-> Electron(executor1, <<>>),
   square |-> Electron(ShortName("dask"), <<>>)]

\* choosing_executors.ipynb
electrons_exec ==
  [identity |-> Electron(executor1, <<>>),
   square |-> Electron(ShortName("local"), <<>>)]

\* the workflow with square called on the lattice's argument
workflow_exec_square_of_input ==
  [order |-> <<"identity", "square">>,
   args |-> [identity |-> <<In("a")>>, square |-> <<In("a")>>],
   returns |-> <<Out("square")>>, tuple |-> FALSE]

workflow_exec ==
  [order |-> <<"identity", "square">>,
   args |-> [identity |-> <<In("a")>>, square |-> <<Out("identity")>>],
   returns |-> <<Out("square")>>, tuple |-> FALSE]

\* transcribe_audio decorated with a bare @ct.electron
electrons_yt_bare_transcribe ==
  [download_video |-> Electron(Unspecified, <<>>),
   load_audio |-> Electron(Unspecified, <<>>),
   transcribe_audio |-> Electron(Unspecified, <<>>),
   summarize_transcription |-> Electron(executor, <<>>),
   text_to_speech_voice_clone |-> Electron(executor, <<>>),
   load_wav_file |-> Electron(Unspecified, <<>>)]

\* the workflow with the transcription, not the summary, given to
\* text_to_speech_voice_clone
workflow_yt_speaks_transcription ==
  [order |-> <<"download_video", "load_audio", "load_wav_file", "transcribe_audio",
               "summarize_transcription", "text_to_speech_voice_clone">>,
   args |-> [download_video |-> <<In("url")>>,
             load_audio |-> <<Out("download_video")>>,
             load_wav_file |-> <<In("user_voice_file")>>,
             transcribe_audio |-> <<Out("load_audio")>>,
             summarize_transcription |-> <<Out("transcribe_audio")>>,
             text_to_speech_voice_clone |->
               <<Out("transcribe_audio"), Out("load_wav_file"), In("output_file")>>],
   returns |-> <<Out("summarize_transcription"), Out("transcribe_audio"),
                 Out("text_to_speech_voice_clone")>>,
   tuple |-> TRUE]

\* YouTube summarisation
electrons_yt ==
  [download_video |-> Electron(Unspecified, <<>>),
   load_audio |-> Electron(Unspecified, <<>>),
   transcribe_audio |-> Electron(executor, <<>>),
   summarize_transcription |-> Electron(executor, <<>>),
   text_to_speech_voice_clone |-> Electron(executor, <<>>),
   load_wav_file |-> Electron(Unspecified, <<>>)]

\* the workflow with load_wav_file called on the downloaded video
workflow_yt_wav_after_download ==
  [order |-> <<"download_video", "load_audio", "load_wav_file", "transcribe_audio",
               "summarize_transcription", "text_to_speech_voice_clone">>,
   args |-> [download_video |-> <<In("url")>>,
             load_audio |-> <<Out("download_video")>>,
             load_wav_file |-> <<Out("download_video")>>,
             transcribe_audio |-> <<Out("load_audio")>>,
             summarize_transcription |-> <<Out("transcribe_audio")>>,
             text_to_speech_voice_clone |->
               <<Out("summarize_transcription"), Out("load_wav_file"), In("output_file")>>],
   returns |-> <<Out("summarize_transcription"), Out("transcribe_audio"),
                 Out("text_to_speech_voice_clone")>>,
   tuple |-> TRUE]

\* the workflow returning transcription, summary, output_file_content
workflow_yt_returns_transcription_first ==
  [order |-> <<"download_video", "load_audio", "load_wav_file", "transcribe_audio",
               "summarize_transcription", "text_to_speech_voice_clone">>,
   args |-> [download_video |-> <<In("url")>>,
             load_audio |-> <<Out("download_video")>>,
             load_wav_file |-> <<In("user_voice_file")>>,
             transcribe_audio |-> <<Out("load_audio")>>,
             summarize_transcription |-> <<Out("transcribe_audio")>>,
             text_to_speech_voice_clone |->
               <<Out("summarize_transcription"), Out("load_wav_file"), In("output_file")>>],
   returns |-> <<Out("transcribe_audio"), Out("summarize_transcription"),
                 Out("text_to_speech_voice_clone")>>,
   tuple |-> TRUE]

workflow_yt ==
  [order |-> <<"download_video", "load_audio", "load_wav_file", "transcribe_audio",
               "summarize_transcription", "text_to_speech_voice_clone">>,
   args |-> [download_video |-> <<In("url")>>,
             load_audio |-> <<Out("download_video")>>,
             load_wav_file |-> <<In("user_voice_file")>>,
             transcribe_audio |-> <<Out("load_audio")>>,
             summarize_transcription |-> <<Out("transcribe_audio")>>,
             text_to_speech_voice_clone |->
               <<Out("summarize_transcription"), Out("load_wav_file"), In("output_file")>>],
   returns |-> <<Out("summarize_transcription"), Out("transcribe_audio"),
                 Out("text_to_speech_voice_clone")>>,
   tuple |-> TRUE]

\* PennyLane hybrid optimisation
electrons_pl ==
  [get_optimizer |-> Electron(Unspecified, <<>>),
   get_init_params |-> Electron(Unspecified, <<>>),
   training |-> Electron(Unspecified, <<>>)]

\* the lattice with get_init_params also handed the optimizer
workflow_pl_chained ==
  [order |-> <<"get_optimizer", "get_init_params", "training">>,
   args |-> [get_optimizer |-> <<>>,
             get_init_params |-> <<In("init_params"), Out("get_optimizer")>>,
             training |-> <<Out("get_optimizer"), Out("get_init_params"),
                            Const("cost"), In("steps")>>],
   returns |-> <<Out("training")>>, tuple |-> FALSE]

workflow_pl ==
  [order |-> <<"get_optimizer", "get_init_params", "training">>,
   args |-> [get_optimizer |-> <<>>,
             get_init_params |-> <<In("init_params")>>,
             training |-> <<Out("get_optimizer"), Out("get_init_params"),
                            Const("cost"), In("steps")>>],
   returns |-> <<Out("training")>>, tuple |-> FALSE]

Lattice(n) ==
  CASE n = "s3" -> process_s3_data
    [] n = "exec" -> workflow_exec
    [] n = "yt" -> workflow_yt
    [] OTHER -> workflow_pl

Electrons(n) ==
  CASE n = "s3" -> electrons_s3
    [] n = "exec" -> electrons_exec
    [] n = "yt" -> electrons_yt
    [] OTHER -> electrons_pl

Range(s) == {s[k] : k \in DOMAIN s}
Nodes(n) == Range(Lattice(n).order)

\* the nodes whose outputs node m takes as arguments
Parents(n, m) == {s.name : s \in {t \in Range(Lattice(n).args[m]) : t.src = "node"}}

----------------------------------------------------------------------------
(* The bodies of the electrons *)

\* x + x for x * x
square_double(x) == x + x

identity(x) == x

square(x) == x * x

download_video(url) == <<"mp4", url>>

load_audio(input_file_content) == <<"AudioSegment", input_file_content>>

transcribe_audio(audio_content) == <<"text", audio_content>>

summarize_transcription(transcription) == <<"summary", transcription>>

text_to_speech_voice_clone(text, speaker_content, output_file) ==
  <<"speech", text, speaker_content>>

get_optimizer == <<"GradientDescentOptimizer">>

get_init_params(init_params) == <<"array", init_params>>

\* opt.step(cost, params) and cost(params): one update, and the cost
\* evaluated at a parameter value
OptStep(opt, cost, params) == <<"step", params>>
Cost(cost, params) == <<"cost", params>>

\* the loop recording the cost before the update instead of after it
RECURSIVE TrainingLoop_cost_before(_, _, _, _, _, _, _)
TrainingLoop_cost_before(opt, cost, steps, i, params, training_steps, cost_steps) ==
  IF i >= steps THEN <<params, training_steps, cost_steps>>
  ELSE TrainingLoop_cost_before(opt, cost, steps, i + 1, OptStep(opt, cost, params),
                                Append(training_steps, i),
                                Append(cost_steps, Cost(cost, params)))

RECURSIVE TrainingLoop(_, _, _, _, _, _, _)
TrainingLoop(opt, cost, steps, i, params, training_steps, cost_steps) ==
  IF i >= steps THEN <<params, training_steps, cost_steps>>
  ELSE LET p == OptStep(opt, cost, params)
       IN TrainingLoop(opt, cost, steps, i + 1, p,
                       Append(training_steps, i), Append(cost_steps, Cost(cost, p)))

\* the loop written as `for i in range(1, steps)`
training_from_one(opt, init_params, cost, steps) ==
  TrainingLoop(opt, cost, steps, 1, init_params, <<>>, <<>>)

training(opt, init_params, cost, steps) ==
  TrainingLoop(opt, cost, steps, 0, init_params, <<>>, <<>>)

\* to_grayscale reads files[0][1] and writes files[1][0]
ImagePath(files) == files[1][2]
GrayImagePath(files) == files[2][1]
rgb2gray(img) == <<"gray">> \o img

\* What running the body of electron m does: whether it returns or raises,
\* the value returned, and the files after it.  a: the argument values,
\* files: the injected files argument, fs: the files, fault: an error of the
\* environment (network, model download, codec) during the call.
Body(m, a, files, fs, fault) ==
  LET ret(v) == [ok |-> TRUE, value |-> v, fs |-> fs]
      raise == [ok |-> FALSE, value |-> None, fs |-> fs]
  IN CASE m = "identity" -> ret(identity(a[1]))
       [] m = "square" -> ret(square(a[1]))
       [] m = "to_grayscale" ->
            IF fs[<<"file", ImagePath(files)>>] = Absent THEN raise
            ELSE [ok |-> TRUE, value |-> None,
                  fs |-> [fs EXCEPT ![<<"file", GrayImagePath(files)>>] =
                                      rgb2gray(fs[<<"file", ImagePath(files)>>])]]
       [] m = "download_video" -> IF fault THEN raise ELSE ret(download_video(a[1]))
       [] m = "load_audio" -> ret(load_audio(a[1]))
       [] m = "transcribe_audio" -> IF fault THEN raise ELSE ret(transcribe_audio(a[1]))
       [] m = "summarize_transcription" ->
            IF fault THEN raise ELSE ret(summarize_transcription(a[1]))
       [] m = "text_to_speech_voice_clone" ->
            IF fault THEN raise ELSE ret(text_to_speech_voice_clone(a[1], a[2], a[3]))
       [] m = "load_wav_file" ->
            IF fs[Loc(a[1])] = Absent THEN raise ELSE ret(fs[Loc(a[1])])
       [] m = "get_optimizer" -> ret(get_optimizer)
       [] m = "get_init_params" -> ret(get_init_params(a[1]))
       [] OTHER -> ret(training(a[1], a[2], a[3], a[4]))

\* the electrons whose body goes to the network (YouTube, the model hub)
MayRaise ==
  {"download_video", "transcribe_audio", "summarize_transcription",
   "text_to_speech_voice_clone"}

----------------------------------------------------------------------------
(* State *)

VARIABLES
  nb,            \* the notebook this kernel session runs
  ns,            \* the names bound in the kernel's namespace
  pc,            \* the statement the kernel is at; cell 0 when idle
  err,           \* the exception that ended the last cell run, or "none"
  dispatch_id,   \* the value of the variable dispatch_id (0: unbound)
  result,        \* the value get_result last returned (output, result, status)
  unpacked,      \* opt_params, traing_steps, cost_steps of the PennyLane notebook
  out,           \* what the last statement or script run displayed
  session_state, \* st.session_state
  db,            \* the dispatcher's records, one per dispatch
  fs,            \* the contents of the files and S3 objects
  top,           \* the last cell of the notebook run so far (0: none)
  issued,        \* history: the identifier and arguments of every ct.dispatch call
  retrieved,     \* history: the identifiers get_result has returned a result for
  click          \* history: the ct.dispatch and ct.get_result calls of the last
                 \* click of Process

vars == <<nb, ns, pc, err, dispatch_id, result, unpacked, out, session_state, db, fs,
          top, issued, retrieved, click>>

Idle == [cell |-> 0, stmt |-> 0, at |-> ""]
\* the variable result before any assignment, and None assigned to it
NoResult == [status |-> "none", result |-> None]
Nothing == [kind |-> "none"]
EmptyState == <<>>
NoClick == [dispatches |-> 0, gets |-> 0]

----------------------------------------------------------------------------
(* The dispatcher *)

\* an identifier that is the same for every dispatch
NewDispatchId_constant(d) == 1

\* a fresh identifier for a dispatch
NewDispatchId(d) == Len(d) + 1

NewDispatch(id, n, args) ==
  [dispatch_id |-> id,
   args |-> args,
   phase |-> [m \in Nodes(n) |-> "pending"],
   body |-> [m \in Nodes(n) |-> "idle"],
   ft |-> [m \in Nodes(n) |-> [k \in DOMAIN Electrons(n)[m].files |-> "idle"]],
   files |-> [m \in Nodes(n) |-> <<>>],
   ranOn |-> [m \in Nodes(n) |-> "none"],
   out |-> [m \in Nodes(n) |-> None],
   status |-> "NEW_OBJECT",
   result |-> None]

\* a dispatch that returns only when the workflow has ended
Dispatch_blocking(d, n, args) ==
  Append(d, [NewDispatch(NewDispatchId(d), n, args) EXCEPT !.status = "COMPLETED"])

\* ct.dispatch(lattice)(args): the lattice is submitted and its identifier
\* returned; the workflow runs afterwards
Dispatch(d, n, args) == Append(d, NewDispatch(NewDispatchId(d), n, args))

\* the record of identifier id
Lookup(d, id) == d[CHOOSE i \in DOMAIN d : d[i].dispatch_id = id]

Val(r, s) ==
  CASE s.src = "input" -> r.args[s.name]
    [] s.src = "node" -> r.out[s.name]
    [] OTHER -> <<"electron", s.name>>

ArgVals(n, r, m) == [k \in DOMAIN Lattice(n).args[m] |-> Val(r, Lattice(n).args[m][k])]

LatticeResult(n, r) ==
  LET v == [k \in DOMAIN Lattice(n).returns |-> Val(r, Lattice(n).returns[k])]
  IN IF Lattice(n).tuple THEN v ELSE v[1]

\* the record once a node has completed: the lattice completes with it
Settle(n, r) ==
  IF \A m \in Nodes(n) : r.phase[m] = "completed"
  THEN [r EXCEPT !.status = "COMPLETED", !.result = LatticeResult(n, r)]
  ELSE r

Failed(r, m) == [r EXCEPT !.phase[m] = "failed", !.status = "FAILED"]

Transfers(n, m, order) ==
  {k \in DOMAIN Electrons(n)[m].files : Electrons(n)[m].files[k].order = order}

\* a node is started once every node it takes an argument from has completed
StartTask(i, m) ==
  /\ i \in DOMAIN db /\ m \in Nodes(nb)
  /\ db[i].status \in NonTerminal
  /\ db[i].phase[m] = "pending"
  /\ \A p \in Parents(nb, m) : db[i].phase[p] = "completed"
  /\ LET ex == ResolveExecutor(Electrons(nb)[m].executor)
         r == [db[i] EXCEPT !.ranOn[m] = ex, !.status = "RUNNING"]
     IN db' = [db EXCEPT ![i] =
                 IF ex = "unknown" THEN Failed(r, m)
                 ELSE IF Transfers(nb, m, "BEFORE") # {}
                 THEN [r EXCEPT !.phase[m] = "staging",
                                !.files[m] = InjectFiles(Electrons(nb)[m].files)]
                 ELSE [r EXCEPT !.phase[m] = "running", !.body[m] = "started",
                                !.files[m] = InjectFiles(Electrons(nb)[m].files)]]
  /\ UNCHANGED <<click, nb, ns, pc, err, dispatch_id, result, unpacked, out, session_state, fs,
                 top, issued, retrieved>>

\* one file transfer of a node: those of order BEFORE while it is staging,
\* those of order AFTER once its body has returned, each in list order
Transfer(i, m, k, fault) ==
  /\ i \in DOMAIN db /\ m \in Nodes(nb)
  /\ db[i].status \in NonTerminal
  /\ k \in DOMAIN Electrons(nb)[m].files
  /\ db[i].ft[m][k] = "idle"
  /\ LET t == Electrons(nb)[m].files[k]
     IN /\ \/ db[i].phase[m] = "staging" /\ t.order = "BEFORE"
           \/ db[i].phase[m] = "uploading" /\ t.order = "AFTER"
        /\ \A j \in Transfers(nb, m, t.order) : j < k => db[i].ft[m][j] = "done"
        /\ IF fault \/ fs[Loc(t.from)] = Absent
           THEN /\ db' = [db EXCEPT ![i] = Failed([db[i] EXCEPT !.ft[m][k] = "failed"], m)]
                /\ fs' = fs
           ELSE /\ db' = [db EXCEPT ![i].ft[m][k] = "done"]
                /\ fs' = [fs EXCEPT ![Loc(t.to)] = fs[Loc(t.from)]]
  /\ UNCHANGED <<click, nb, ns, pc, err, dispatch_id, result, unpacked, out, session_state,
                 top, issued, retrieved>>

\* the body of a staged node starts when its BEFORE transfers are done
StartBody(i, m) ==
  /\ i \in DOMAIN db /\ m \in Nodes(nb)
  /\ db[i].status \in NonTerminal
  /\ db[i].phase[m] = "staging"
  /\ \A k \in Transfers(nb, m, "BEFORE") : db[i].ft[m][k] = "done"
  /\ db' = [db EXCEPT ![i].phase[m] = "running", ![i].body[m] = "started"]
  /\ UNCHANGED <<click, nb, ns, pc, err, dispatch_id, result, unpacked, out, session_state, fs,
                 top, issued, retrieved>>

\* the body of a node returns or raises
FinishTask(i, m, fault) ==
  /\ i \in DOMAIN db /\ m \in Nodes(nb)
  /\ db[i].status \in NonTerminal
  /\ db[i].phase[m] = "running"
  /\ fault => m \in MayRaise
  /\ LET b == Body(m, ArgVals(nb, db[i], m), db[i].files[m], fs, fault)
     IN IF ~b.ok
        THEN /\ db' = [db EXCEPT ![i] = Failed([db[i] EXCEPT !.body[m] = "raised"], m)]
             /\ fs' = fs
        ELSE /\ fs' = b.fs
             /\ LET r == [db[i] EXCEPT !.body[m] = "returned", !.out[m] = b.value]
                IN db' = [db EXCEPT ![i] =
                            IF Transfers(nb, m, "AFTER") # {}
                            THEN [r EXCEPT !.phase[m] = "uploading"]
                            ELSE Settle(nb, [r EXCEPT !.phase[m] = "completed"])]
  /\ UNCHANGED <<click, nb, ns, pc, err, dispatch_id, result, unpacked, out, session_state,
                 top, issued, retrieved>>

\* a node completes when its AFTER transfers are done
CompleteTask(i, m) ==
  /\ i \in DOMAIN db /\ m \in Nodes(nb)
  /\ db[i].status \in NonTerminal
  /\ db[i].phase[m] = "uploading"
  /\ \A k \in Transfers(nb, m, "AFTER") : db[i].ft[m][k] = "done"
  /\ db' = [db EXCEPT ![i] = Settle(nb, [db[i] EXCEPT !.phase[m] = "completed"])]
  /\ UNCHANGED <<click, nb, ns, pc, err, dispatch_id, result, unpacked, out, session_state, fs,
                 top, issued, retrieved>>

\* ct.get_result(id, wait): the record of the dispatch; with wait it is
\* returned only once the status is terminal
GetResultReady(d, id, wait) == wait => Lookup(d, id).status \in Terminal
GetResult(d, id) == Lookup(d, id)

----------------------------------------------------------------------------
(* The code cells of the notebooks: per cell its statements, per statement
   the names it reads and the names it binds.  Cells without a statement
   (the commented-out pip install, the empty last cell) are left out. *)

Bind(needs, binds) == [op |-> "bind", needs |-> needs, binds |-> binds]
Stmt(op, needs, binds) == [op |-> op, needs |-> needs, binds |-> binds]

\* get_result called without wait=True
get_result_no_wait == [wait |-> FALSE]

\* the status read right after the dispatch, without wait=True
get_result_s3_no_wait == [wait |-> FALSE]

\* the arguments of the calls of ct.get_result
get_result_s3 == [wait |-> TRUE]
get_result_exec == [wait |-> TRUE]
get_result_pl == [wait |-> TRUE]
get_result_yt == [wait |-> TRUE]

file_transfers_to_from_s3 ==
  << << Bind({}, {"ct", "List", "Tuple", "Path", "io", "color"}),
        Bind({"ct"}, {"strategy"}),
        Bind({}, {"unprocessed_filename", "processed_filename"}),
        Bind({"Path", "unprocessed_filename", "processed_filename"},
             {"unprocessed_filepath", "processed_filepath"}),
        Bind({"unprocessed_filename", "processed_filename"},
             {"s3_source_path", "s3_dest_path"}),
        Bind({"ct", "s3_source_path", "unprocessed_filepath", "strategy"}, {"ft_1"}),
        Bind({"ct", "processed_filepath", "s3_dest_path", "strategy"}, {"ft_2"}) >>,
     << Bind({"ct", "ft_1", "ft_2", "List", "Tuple"}, {"to_grayscale"}) >>,
     << Bind({"ct"}, {"process_s3_data"}),
        Stmt("dispatch", {"ct", "process_s3_data", "to_grayscale"}, {"dispatch_id"}),
        Stmt("get_result", {"ct", "dispatch_id"}, {"status"}),
        Stmt("print_status", {"status"}, {}) >> >>

choosing_executors ==
  << << Bind({}, {"ct"}) >>,
     << Bind({"ct"}, {"executor1"}) >>,
     << Bind({"ct", "executor1"}, {"identity"}) >>,
     << Bind({"ct"}, {"square"}) >>,
     << Bind({"ct"}, {"workflow"}) >>,
     << Stmt("dispatch", {"ct", "workflow", "identity", "square"}, {"dispatch_id"}),
        Stmt("print_id", {"dispatch_id"}, {}) >>,
     << Stmt("get_result", {"ct", "dispatch_id"}, {"output"}),
        Stmt("print_result", {"output"}, {}) >> >>

youtube_summarization ==
  << << Bind({}, {"os", "st", "YouTube", "AudioSegment", "pipeline", "TTS"}) >>,
     << Bind({}, {"audio_deps", "text_deps"}),
        Bind({"audio_deps"}, {"tts_deps"}),
        Bind({"ct"}, {"executor"}) >>,
     << Bind({}, {"cc"}),
        Bind({"cc"}, {"cc_executor"}) >>,
     << Bind({"ct"}, {"download_video"}),
        Bind({"ct"}, {"load_audio"}),
        Bind({"ct", "executor", "audio_deps"}, {"transcribe_audio"}),
        Bind({"ct", "executor", "text_deps"}, {"summarize_transcription"}),
        Bind({"ct", "executor", "tts_deps"}, {"text_to_speech_voice_clone"}),
        Bind({"ct"}, {"load_wav_file"}) >>,
     << Bind({"ct"}, {"workflow"}) >>,
     << Bind({}, {"st"}),
        Bind({}, {"display_results", "display_summary", "display_full_transcription",
                  "display_audio_summary", "main", "upload_speaker_file",
                  "process_input"}),
        Stmt("main", {"main"}, {}) >> >>

pennylane_hybrid ==
  << << Stmt("print_requirements", {}, {}) >>,
     << Bind({}, {"qml", "np", "ct", "plt"}) >>,
     << Bind({"qml"}, {"dev_fock", "dev_qubit"}) >>,
     << Bind({"ct", "qml", "dev_fock"}, {"photon_redirection"}),
        Bind({"ct", "qml", "dev_qubit"}, {"qubit_rotation"}),
        Bind({"ct"}, {"squared_difference"}) >>,
     << Bind({"ct"}, {"cost"}),
        Bind({"ct"}, {"get_optimizer"}),
        Bind({"ct"}, {"get_init_params"}),
        Bind({"ct"}, {"training"}),
        Bind({"ct"}, {"workflow"}) >>,
     << Stmt("dispatch", {"ct", "workflow", "get_optimizer", "get_init_params",
                          "training", "cost"}, {"dispatch_id"}),
        Stmt("get_result", {"ct", "dispatch_id"}, {"result"}),
        Stmt("unpack", {"result"}, {"opt_params", "traing_steps", "cost_steps"}) >>,
     << Stmt("plot", {"plt", "traing_steps", "cost_steps"}, {}) >>,
     << Stmt("print_expval", {"photon_redirection", "opt_params", "qubit_rotation"}, {}) >> >>

Cells(n) ==
  CASE n = "s3" -> file_transfers_to_from_s3
    [] n = "exec" -> choosing_executors
    [] n = "yt" -> youtube_summarization
    [] OTHER -> pennylane_hybrid

GetResultCall(n) ==
  CASE n = "s3" -> get_result_s3
    [] n = "exec" -> get_result_exec
    [] n = "yt" -> get_result_yt
    [] OTHER -> get_result_pl

\* the arguments the dispatch statement of a notebook may be run with
DispatchInputs(n) ==
  CASE n = "s3" -> {<<>>}
    [] n = "exec" -> {[a |-> v] : v \in ExecInputs}
    [] n = "pl" -> {[init_params |-> <<"p0">>, steps |-> k] : k \in StepInputs}
    [] OTHER -> {}

----------------------------------------------------------------------------
(* The kernel *)

\* the statements from j on that only bind names run without a step of the
\* dispatcher in between; a name that is not bound ends the cell
RECURSIVE RunBinds(_, _, _)
RunBinds(names, stmts, j) ==
  IF j > Len(stmts) \/ stmts[j].op # "bind"
  THEN [ns |-> names, j |-> j, err |-> "none"]
  ELSE IF stmts[j].needs \subseteq names
       THEN RunBinds(names \cup stmts[j].binds, stmts, j + 1)
       ELSE [ns |-> names, j |-> j, err |-> "NameError"]

\* the kernel after statement j of cell c, with the names bound so far
Advance(names, c, j) ==
  LET r == RunBinds(names, Cells(nb)[c], j + 1)
  IN [ns |-> r.ns, err |-> r.err,
      pc |-> IF r.err = "none" /\ r.j <= Len(Cells(nb)[c])
             THEN [cell |-> c, stmt |-> r.j, at |-> ""] ELSE Idle]

Cur == Cells(nb)[pc.cell][pc.stmt]
AtStmt(op) == pc.cell # 0 /\ pc.at = "" /\ Cur.op = op
Bound == Cur.needs \subseteq ns

Goes(a) == /\ ns' = a.ns /\ err' = a.err /\ pc' = a.pc
Raises(e) == /\ ns' = ns /\ err' = e /\ pc' = Idle

HasOp(c, op) == \E j \in DOMAIN Cells(nb)[c] : Cells(nb)[c][j].op = op

Max(a, b) == IF a >= b THEN a ELSE b

\* the user runs a cell: any cell run before, or the next one down
RunCell(c) ==
  /\ pc = Idle
  /\ c \in DOMAIN Cells(nb) /\ c <= top + 1
  /\ HasOp(c, "dispatch") => Len(db) < MaxDispatch
  /\ top' = Max(top, c)
  /\ Goes(Advance(ns, c, 0))
  /\ UNCHANGED <<click, nb, dispatch_id, result, unpacked, out, session_state, db, fs,
                 issued, retrieved>>

\* dispatch_id = ct.dispatch(lattice)(args)
DispatchStmt(args) ==
  /\ AtStmt("dispatch")
  /\ args \in DispatchInputs(nb)
  /\ IF Bound
     THEN /\ db' = Dispatch(db, nb, args)
          /\ dispatch_id' = db'[Len(db')].dispatch_id
          /\ issued' = Append(issued, [id |-> dispatch_id', args |-> args])
          /\ Goes(Advance(ns \cup Cur.binds, pc.cell, pc.stmt))
     ELSE /\ Raises("NameError")
          /\ UNCHANGED <<db, dispatch_id, issued>>
  /\ UNCHANGED <<click, nb, result, unpacked, out, session_state, fs, top, retrieved>>

\* ... = ct.get_result(dispatch_id, wait=True)
GetResultStmt ==
  /\ AtStmt("get_result")
  /\ IF Bound
     THEN /\ GetResultReady(db, dispatch_id, GetResultCall(nb).wait)
          /\ result' = GetResult(db, dispatch_id)
          /\ retrieved' = retrieved \cup {dispatch_id}
          /\ Goes(Advance(ns \cup Cur.binds, pc.cell, pc.stmt))
     ELSE /\ Raises("NameError")
          /\ UNCHANGED <<result, retrieved>>
  /\ UNCHANGED <<click, nb, dispatch_id, unpacked, out, session_state, db, fs, top, issued>>

\* what a statement that only displays shows
Shown(op) ==
  CASE op = "print_id" -> [kind |-> "dispatch_id", val |-> dispatch_id]
    [] op = "print_result" -> [kind |-> "result", val |-> result]
    [] op = "print_status" -> [kind |-> "status", val |-> result.status]
    [] op = "plot" -> [kind |-> "plot", val |-> <<unpacked[2], unpacked[3]>>]
    [] op = "print_expval" -> [kind |-> "expval", val |-> unpacked[1]]
    [] OTHER -> [kind |-> "requirements"]

DisplayOps == {"print_id", "print_result", "print_status", "plot", "print_expval",
               "print_requirements"}

\* print(...), ax.plot(...)
DisplayStmt ==
  /\ pc.cell # 0 /\ pc.at = "" /\ Cur.op \in DisplayOps
  /\ IF Bound
     THEN /\ out' = Shown(Cur.op)
          /\ Goes(Advance(ns, pc.cell, pc.stmt))
     ELSE /\ Raises("NameError")
          /\ out' = out
  /\ UNCHANGED <<click, nb, dispatch_id, result, unpacked, session_state, db, fs, top,
                 issued, retrieved>>

\* opt_params, traing_steps, cost_steps = result.result
UnpackStmt ==
  /\ AtStmt("unpack")
  /\ IF ~Bound
     THEN Raises("NameError") /\ unpacked' = unpacked
     ELSE IF result.result = None
     THEN Raises("TypeError") /\ unpacked' = unpacked
     ELSE /\ unpacked' = result.result
          /\ Goes(Advance(ns \cup Cur.binds, pc.cell, pc.stmt))
  /\ UNCHANGED <<click, nb, dispatch_id, result, out, session_state, db, fs, top,
                 issued, retrieved>>

----------------------------------------------------------------------------
(* The Streamlit script of the YouTube notebook *)

\* display_results showing the transcription under the summary heading
display_results_swapped(summary, transcription, audio_file_content, show) ==
  [kind |-> "results",
   summary |-> transcription,
   transcription |-> IF show THEN summary ELSE <<"hidden">>,
   audio |-> audio_file_content]

display_results(summary, transcription, audio_file_content, show) ==
  [kind |-> "results",
   summary |-> summary,
   transcription |-> IF show THEN transcription ELSE <<"hidden">>,
   audio |-> audio_file_content]

\* upload_speaker_file returning the pair without writing speaker.wav
upload_speaker_file_no_write(speaker_file, files) ==
  IF speaker_file # None
  THEN [ret |-> <<speaker_file, speaker_wav>>, fs |-> files]
  ELSE [ret |-> <<None, None>>, fs |-> files]

\* upload_speaker_file(): the pair returned and the files after it
upload_speaker_file(speaker_file, files) ==
  IF speaker_file # None
  THEN [ret |-> <<speaker_file, speaker_wav>>,
        fs |-> [files EXCEPT ![Loc(speaker_wav)] = speaker_file]]
  ELSE [ret |-> <<None, None>>, fs |-> files]

\* `if speaker_file or youtube_url:`
speaker_file_or_youtube_url(speaker_file, youtube_url) ==
  speaker_file # None \/ youtube_url # ""

\* `if speaker_file and youtube_url:`
speaker_file_and_youtube_url(speaker_file, youtube_url) ==
  speaker_file # None /\ youtube_url # ""

\* the names process_input reads when both inputs are given
ProcessInputNeeds == {"os", "ct", "workflow"} \cup Nodes("yt")

audio_file_full_path == LocalPath("/cwd/audio.wav")

\* the store and display done whatever get_result returned
Truthy_always(r) == TRUE

\* `if result:`: a Result object is true, None is false
Truthy(r) == r # NoResult

\* st.session_state[key] = value
SetItem(state, key, value) ==
  [k \in DOMAIN state \cup {key} |-> IF k = key THEN value ELSE state[k]]

\* process_input not storing the audio
process_input_stores_no_audio == << <<"transcription", 2>>, <<"summary", 1>> >>

\* the assignments to st.session_state, in order: the key, and the position
\* in summary, transcription, output_file_content of the value stored
process_input_stores ==
  << <<"transcription", 2>>, <<"summary", 1>>, <<"audio_file_content", 3>> >>

\* the session state after the assignments from j on
RECURSIVE Store(_, _, _, _)
Store(state, stores, values, j) ==
  IF j > Len(stores) THEN state
  ELSE Store(SetItem(state, stores[j][1], values[stores[j][2]]), stores, values, j + 1)

\* process_input storing and displaying before it waits for the result
process_input_steps_display_first == <<"dispatch", "tail", "spinner">>

\* process_input calling get_result again after the store and display
process_input_steps_get_again == <<"dispatch", "spinner", "tail", "spinner">>

\* the statements of process_input once both inputs are given, in order:
\* the dispatch, the get_result inside the spinner, the store and display
process_input_steps == <<"dispatch", "spinner", "tail">>

\* the kernel after step `at` of process_input
AfterStep(at) ==
  LET k == CHOOSE j \in DOMAIN process_input_steps : process_input_steps[j] = at
  IN IF k < Len(process_input_steps)
     THEN [ns |-> ns, err |-> "none", pc |-> [pc EXCEPT !.at = process_input_steps[k + 1]]]
     ELSE Advance(ns, pc.cell, pc.stmt)

\* main() when Process is not clicked
MainRerun(speaker, url, show) ==
  /\ AtStmt("main")
  /\ speaker \in Uploads /\ url \in Urls
  /\ fs' = upload_speaker_file(speaker, fs).fs
  /\ IF "transcription" \notin DOMAIN session_state
     THEN out' = Nothing /\ Goes(Advance(ns, pc.cell, pc.stmt))
     ELSE IF {"summary", "audio_file_content"} \subseteq DOMAIN session_state
     THEN /\ out' = display_results(session_state["summary"],
                                    session_state["transcription"],
                                    session_state["audio_file_content"], show)
          /\ Goes(Advance(ns, pc.cell, pc.stmt))
     ELSE /\ out' = [kind |-> "exception", val |-> "KeyError"]
          /\ Raises("KeyError")
  /\ UNCHANGED <<click, nb, dispatch_id, result, unpacked, session_state, db, top,
                 issued, retrieved>>

\* main() when Process is clicked: process_input up to the spinner
MainProcess(speaker, url) ==
  /\ AtStmt("main")
  /\ speaker \in Uploads /\ url \in Urls
  /\ LET u == upload_speaker_file(speaker, fs)
         args == [url |-> url, user_voice_file |-> u.ret[2],
                  output_file |-> audio_file_full_path]
     IN /\ fs' = u.fs
        /\ IF speaker_file_and_youtube_url(u.ret[1], url)
           THEN IF ProcessInputNeeds \subseteq ns
                THEN /\ Len(db) < MaxDispatch
                     /\ db' = Dispatch(db, nb, args)
                     /\ dispatch_id' = db'[Len(db')].dispatch_id
                     /\ issued' = Append(issued, [id |-> dispatch_id', args |-> args])
                     /\ click' = [NoClick EXCEPT !.dispatches = @ + 1]
                     /\ out' = [kind |-> "spinner", val |-> dispatch_id']
                     /\ Goes(AfterStep("dispatch"))
                ELSE /\ Raises("NameError")
                     /\ out' = [kind |-> "exception", val |-> "NameError"]
                     /\ click' = NoClick
                     /\ UNCHANGED <<db, dispatch_id, issued>>
           ELSE /\ out' = Nothing
                /\ click' = NoClick
                /\ Goes(Advance(ns, pc.cell, pc.stmt))
                /\ UNCHANGED <<db, dispatch_id, issued>>
  /\ UNCHANGED <<nb, result, unpacked, session_state, top, retrieved>>

\* process_input inside the spinner: result = ct.get_result(dispatch_id, wait=True)
ProcessGetResult ==
  /\ pc.cell # 0 /\ pc.at = "spinner"
  /\ GetResultReady(db, dispatch_id, GetResultCall(nb).wait)
  /\ result' = GetResult(db, dispatch_id)
  /\ retrieved' = retrieved \cup {dispatch_id}
  /\ click' = [click EXCEPT !.gets = @ + 1]
  /\ Goes(AfterStep("spinner"))
  /\ UNCHANGED <<nb, dispatch_id, unpacked, out, session_state, db, fs, top, issued>>

\* process_input after the spinner
ProcessTail(show) ==
  /\ pc.cell # 0 /\ pc.at = "tail"
  /\ IF Truthy(result)
     THEN IF result.result = None
          THEN /\ Raises("TypeError")
               /\ out' = [kind |-> "exception", val |-> "TypeError"]
               /\ session_state' = session_state
          ELSE /\ session_state' = Store(session_state, process_input_stores,
                                          result.result, 1)
               /\ out' = display_results(result.result[1], result.result[2],
                                         result.result[3], show)
               /\ Goes(AfterStep("tail"))
     ELSE /\ out' = [kind |-> "error", val |-> "Something went wrong. Please try again."]
          /\ session_state' = session_state
          /\ Goes(AfterStep("tail"))
  /\ UNCHANGED <<click, nb, dispatch_id, result, unpacked, db, fs, top, issued, retrieved>>

----------------------------------------------------------------------------
(* The specification *)

\* The kernel is fresh or already has covalent imported as ct; the source
\* object of the S3 notebook has or has not been uploaded.
Init ==
  /\ nb \in Notebooks
  /\ ns \in {{}, {"ct"}}
  /\ pc = Idle
  /\ err = "none"
  /\ dispatch_id = 0
  /\ result = NoResult
  /\ unpacked = None
  /\ out = Nothing
  /\ session_state = EmptyState
  /\ db = <<>>
  /\ \E img \in {Absent} \cup SourceImages :
        /\ nb # "s3" => img = Absent
        /\ fs = [l \in Locations |-> IF l = Loc(s3_source_path) THEN img ELSE Absent]
  /\ top = 0
  /\ issued = <<>>
  /\ retrieved = {}
  /\ click = NoClick

Next ==
  \/ \E c \in 1..8 : RunCell(c)
  \/ \E args \in DispatchInputs(nb) : DispatchStmt(args)
  \/ GetResultStmt
  \/ DisplayStmt
  \/ UnpackStmt
  \/ \E speaker \in Uploads, url \in Urls, show \in BOOLEAN : MainRerun(speaker, url, show)
  \/ \E speaker \in Uploads, url \in Urls : MainProcess(speaker, url)
  \/ ProcessGetResult
  \/ \E show \in BOOLEAN : ProcessTail(show)
  \/ \E i \in 1..MaxDispatch, m \in Nodes(nb) : StartTask(i, m)
  \/ \E i \in 1..MaxDispatch, m \in Nodes(nb), k \in 1..2, fault \in BOOLEAN :
        Transfer(i, m, k, fault)
  \/ \E i \in 1..MaxDispatch, m \in Nodes(nb) : StartBody(i, m)
  \/ \E i \in 1..MaxDispatch, m \in Nodes(nb), fault \in BOOLEAN : FinishTask(i, m, fault)
  \/ \E i \in 1..MaxDispatch, m \in Nodes(nb) : CompleteTask(i, m)

Spec == Init /\ [][Next]_vars

\* one step of the dispatcher on some node of some dispatch
DispatcherStep ==
  \E i \in 1..MaxDispatch, m \in Nodes(nb) :
     \/ StartTask(i, m)
     \/ \E k \in 1..2, fault \in BOOLEAN : Transfer(i, m, k, fault)
     \/ StartBody(i, m)
     \/ \E fault \in BOOLEAN : FinishTask(i, m, fault)
     \/ CompleteTask(i, m)

\* A session of the S3 notebook: the steps of Next that notebook can take.
\* The dispatcher keeps working on the dispatches it has, and the kernel
\* keeps running the statements of the cell it is in.
InitS3 == Init /\ nb = "s3"

NextS3 ==
  \/ \E c \in 1..8 : RunCell(c)
  \/ \E args \in DispatchInputs(nb) : DispatchStmt(args)
  \/ GetResultStmt
  \/ DisplayStmt
  \/ DispatcherStep

FairSpecS3 ==
  /\ InitS3 /\ [][NextS3]_vars
  /\ WF_vars(DispatcherStep)
  /\ WF_vars(GetResultStmt)
  /\ WF_vars(DisplayStmt)

\* process_input from `if result:` on, for whatever get_result may have
\* returned: None, the Result of a failed dispatch, or that of a completed
\* one, with any session_state left by an earlier run.
ResultTuples ==
  {<<su, tr, au>> : su \in {<<"summary", "x">>, <<"summary", "y">>},
                    tr \in {<<"text", "x">>, <<"text", "y">>},
                    au \in {<<"speech", "x">>, <<"speech", "y">>}}

ResultObject(status, value) ==
  [NewDispatch(1, "yt", [url |-> "u1", user_voice_file |-> speaker_wav,
                         output_file |-> audio_file_full_path])
     EXCEPT !.status = status, !.result = value]

GetResultOutcomes ==
  {NoResult, ResultObject("FAILED", None)}
    \cup {ResultObject("COMPLETED", v) : v \in ResultTuples}

InitProcessInput ==
  /\ nb = "yt"
  /\ ns = {"ct"} \cup
          UNION {UNION {youtube_summarization[c][j].binds :
                          j \in DOMAIN youtube_summarization[c]} :
                   c \in DOMAIN youtube_summarization}
  /\ pc = [cell |-> Len(youtube_summarization), stmt |-> 3, at |-> "tail"]
  /\ err = "none"
  /\ dispatch_id = 1
  /\ result \in GetResultOutcomes
  /\ unpacked = None
  /\ out = [kind |-> "spinner", val |-> 1]
  /\ session_state \in {EmptyState} \cup
        {[transcription |-> v[2], summary |-> v[1], audio_file_content |-> v[3]] :
           v \in ResultTuples}
  /\ db = <<>>
  /\ fs = [l \in Locations |-> Absent]
  /\ top = Len(youtube_summarization)
  /\ issued = <<>>
  /\ retrieved = {1}
  /\ click = [dispatches |-> 1, gets |-> 1]

NextProcessInput == \E show \in BOOLEAN : ProcessTail(show)

SpecProcessInput == InitProcessInput /\ [][NextProcessInput]_vars

----------------------------------------------------------------------------
(* Properties *)

Ids(h) == {h[k].id : k \in DOMAIN h}

\* C1: in every run of process_s3_data the transfer ft_1 (S3 to local, order
\* BEFORE) is done before the body of to_grayscale starts, and the transfer
\* ft_2 (local to S3, order AFTER) starts only after the body has returned.
C1_TransfersAroundBody ==
  nb = "s3" =>
    \A i \in DOMAIN db :
      /\ db[i].body["to_grayscale"] # "idle" =>
           /\ db[i].ft["to_grayscale"][1] = "done"
           /\ fs[Loc(unprocessed_filepath)] # Absent
      /\ db[i].ft["to_grayscale"][2] # "idle" => db[i].body["to_grayscale"] = "returned"

C1_Witness ==
  /\ nb = "s3" /\ Len(db) >= 1
  /\ db[1].body["to_grayscale"] = "returned"
  /\ db[1].ft["to_grayscale"][1] = "done"
  /\ db[1].ft["to_grayscale"][2] = "done"

\* C2: a call of ct.get_result(dispatch_id, wait=True) returns only once the
\* dispatch is terminal: no result it returned has the status NEW_OBJECT or
\* RUNNING.
C2_WaitReturnsTerminal ==
  result # NoResult => result.status \in Terminal /\ result.status \notin NonTerminal

C2_Witness ==
  /\ nb = "yt" /\ pc.at = "tail"
  /\ result # NoResult /\ result.status = "COMPLETED"
  /\ result.dispatch_id = dispatch_id

\* C3: two dispatches never share an identifier, and the result
\* ct.get_result(d) returns is the record of the run that the dispatch call
\* returning d started, with the arguments of that call.
C3_ResultOfItsDispatch ==
  [][/\ \A j, k \in DOMAIN issued' : j # k => issued'[j].id # issued'[k].id
     /\ result' # result =>
          \A k \in DOMAIN issued :
            issued[k].id = dispatch_id =>
              /\ result' = db[k]
              /\ result'.args = issued[k].args
              /\ result'.dispatch_id = dispatch_id]_vars

C3_Witness ==
  /\ nb = "yt" /\ Len(issued) = 2
  /\ issued[1].args # issued[2].args
  /\ pc.at = "tail"
  /\ result = db[2] /\ result.args = issued[2].args
  /\ db[1].status = "COMPLETED" /\ db[2].status = "COMPLETED"

\* C4: ct.dispatch returns the identifier without waiting for the workflow:
\* when the call returns, the identifier is bound in the caller (and shown in
\* the spinner of process_input) and the workflow has not started.
C4_DispatchDoesNotWait ==
  [][Len(db') > Len(db) =>
       /\ dispatch_id' = db'[Len(db')].dispatch_id
       /\ db'[Len(db')].status \in NonTerminal
       /\ \A m \in Nodes(nb) : db'[Len(db')].phase[m] = "pending"
       /\ nb = "yt" => out' = [kind |-> "spinner", val |-> dispatch_id']]_vars

C4_Witness ==
  /\ nb = "yt" /\ pc.at = "spinner"
  /\ out = [kind |-> "spinner", val |-> dispatch_id]
  /\ Lookup(db, dispatch_id).status = "RUNNING"

\* C5: every electron of a lattice runs on the executor assigned to it: in
\* the YouTube workflow transcribe_audio, summarize_transcription and
\* text_to_speech_voice_clone on the GCP Batch executor, download_video,
\* load_audio and load_wav_file on the default executor; in the how-to
\* identity and square on the local executor.
C5_Assigned(n) ==
  CASE n = "yt" ->
         [download_video |-> "default", load_audio |-> "default",
          load_wav_file |-> "default", transcribe_audio |-> "GCPBatchExecutor",
          summarize_transcription |-> "GCPBatchExecutor",
          text_to_speech_voice_clone |-> "GCPBatchExecutor"]
    [] n = "exec" -> [identity |-> "LocalExecutor", square |-> "LocalExecutor"]
    [] n = "s3" -> [to_grayscale |-> "default"]
    [] OTHER -> [get_optimizer |-> "default", get_init_params |-> "default",
                 training |-> "default"]

C5_RunsOnAssignedExecutor ==
  \A i \in DOMAIN db : \A m \in Nodes(nb) :
    IF db[i].phase[m] = "pending"
    THEN db[i].ranOn[m] = "none"
    ELSE db[i].ranOn[m] = C5_Assigned(nb)[m]

C5_Witness ==
  /\ nb = "yt" /\ Len(db) >= 1 /\ db[1].status = "COMPLETED"
  /\ db[1].ranOn["transcribe_audio"] = "GCPBatchExecutor"
  /\ db[1].ranOn["download_video"] = "default"

C7_FilesArgument ==
  nb = "s3" =>
    \A i \in DOMAIN db :
      db[i].phase["to_grayscale"] # "pending" =>
        LET files == db[i].files["to_grayscale"]
        IN /\ Len(files) = 2
           /\ files[1] = <<s3_source_path.filepath, unprocessed_filepath.filepath>>
           /\ files[2] = <<processed_filepath.filepath, s3_dest_path.filepath>>
           /\ ImagePath(files) = ft_1.to.filepath /\ ft_1.to.scheme = "file"
           /\ GrayImagePath(files) = ft_2.from.filepath /\ ft_2.from.scheme = "file"
           /\ db[i].body["to_grayscale"] = "returned" =>
                fs[Loc(processed_filepath)] = rgb2gray(fs[Loc(unprocessed_filepath)])

C7_Witness ==
  /\ nb = "s3" /\ Len(db) >= 1
  /\ db[1].body["to_grayscale"] = "returned"
  /\ db[1].files["to_grayscale"][1][2] = "/cwd/unprocessed_file.png"
  /\ db[1].files["to_grayscale"][2][1] = "/cwd/processed_file.png"
  /\ fs[Loc(processed_filepath)] = <<"gray", "color">>

\* C8: for every input a the how-to workflow never fails, cannot stop before
\* it has ended, and ends COMPLETED with result a * a and the node outputs
\* identity = a, square = a * a; for a = 2: result 4, identity 2, square 4.
C8_SquareOfInput ==
  nb = "exec" =>
    \A i \in DOMAIN db :
      LET a == db[i].args["a"]
      IN /\ db[i].status # "FAILED"
         /\ db[i].status \in NonTerminal =>
              \E m \in Nodes(nb) : ENABLED StartTask(i, m) \/ ENABLED FinishTask(i, m, FALSE)
         /\ db[i].status = "COMPLETED" =>
              /\ db[i].result = a * a
              /\ db[i].out["identity"] = a
              /\ db[i].out["square"] = a * a
              /\ a = 2 => db[i].result = 4 /\ db[i].out["identity"] = 2
                          /\ db[i].out["square"] = 4

C8_Witness ==
  /\ nb = "exec" /\ Len(db) = 2
  /\ db[1].args["a"] = 2 /\ db[1].status = "COMPLETED" /\ db[1].result = 4
  /\ db[2].args["a"] = 3 /\ db[2].status = "COMPLETED" /\ db[2].result = 9

\* C9: in the YouTube workflow no task starts before the tasks producing its
\* inputs have completed: download_video before load_audio before
\* transcribe_audio before summarize_transcription, and
\* text_to_speech_voice_clone after both summarize_transcription and
\* load_wav_file.
C9_Before ==
  {<<"download_video", "load_audio">>, <<"load_audio", "transcribe_audio">>,
   <<"transcribe_audio", "summarize_transcription">>,
   <<"summarize_transcription", "text_to_speech_voice_clone">>,
   <<"load_wav_file", "text_to_speech_voice_clone">>}

C9_InputsBeforeTask ==
  nb = "yt" =>
    \A i \in DOMAIN db : \A e \in C9_Before :
      db[i].phase[e[2]] # "pending" =>
        /\ db[i].phase[e[1]] = "completed"
        /\ db[i].body[e[1]] = "returned"
        /\ db[i].out[e[1]] # None

C9_Witness ==
  /\ nb = "yt" /\ Len(db) >= 1
  /\ db[1].phase["text_to_speech_voice_clone"] = "running"
  /\ db[1].phase["summarize_transcription"] = "completed"
  /\ db[1].phase["load_wav_file"] = "completed"

\* C10: every notebook configures, decorates, dispatches, waits, then
\* displays: nothing is dispatched before the external objects are
\* configured and the lattice and its electrons decorated, and no result or
\* status of a dispatch is displayed, unpacked or stored before get_result
\* has returned for that dispatch.
C10_Configured(n) ==
  CASE n = "s3" -> {"strategy", "ft_1", "ft_2"}
    [] n = "exec" -> {"executor1"}
    [] n = "yt" -> {"executor"}
    [] OTHER -> {"dev_fock", "dev_qubit"}

C10_Decorated(n) ==
  CASE n = "s3" -> {"to_grayscale", "process_s3_data"}
    [] n = "exec" -> {"identity", "square", "workflow"}
    [] n = "yt" -> {"download_video", "load_audio", "transcribe_audio",
                    "summarize_transcription", "text_to_speech_voice_clone",
                    "load_wav_file", "workflow"}
    [] OTHER -> {"get_optimizer", "get_init_params", "training", "cost", "workflow"}

C10_UsesResult ==
  \/ pc.at = "tail"
  \/ pc.cell # 0 /\ pc.at = "" /\ Cur.op \in {"print_result", "print_status", "unpack"}

C10_Order ==
  /\ [](/\ Len(db) > 0 => C10_Configured(nb) \cup C10_Decorated(nb) \subseteq ns
        /\ retrieved \subseteq Ids(issued)
        /\ out.kind \in {"result", "status", "results", "plot", "expval"} =>
             retrieved # {}
        /\ out.kind = "result" => out.val.dispatch_id \in retrieved
        /\ unpacked # None => \E d \in retrieved : Lookup(db, d).result = unpacked
        /\ session_state # EmptyState =>
             \E d \in retrieved :
                /\ Lookup(db, d).status = "COMPLETED"
                /\ session_state["summary"] = Lookup(db, d).result[1]
                /\ session_state["transcription"] = Lookup(db, d).result[2]
                /\ session_state["audio_file_content"] = Lookup(db, d).result[3])
  /\ [][C10_UsesResult /\ pc' # pc =>
          /\ dispatch_id \in retrieved
          /\ result = Lookup(db, dispatch_id)]_vars

C10_Witness ==
  /\ nb = "yt" /\ pc = Idle
  /\ Len(db) = 2 /\ retrieved = {1, 2}
  /\ out.kind = "results"
  /\ session_state # EmptyState
  /\ session_state["summary"] = db[2].result[1]
  /\ db[1].status = "COMPLETED" /\ db[1].result[1] # db[2].result[1]

\* C11: every notebook imports covalent before calling it: running the cells
\* top to bottom, no statement ends on an unbound name, and once a statement
\* that reads the name ct has been reached, a cell run so far has bound ct
\* by an import.
C11_UsesCt(c) == \E j \in DOMAIN Cells(nb)[c] : "ct" \in Cells(nb)[c][j].needs

C11_ImportsCt(c) ==
  \E j \in DOMAIN Cells(nb)[c] :
    /\ Cells(nb)[c][j].needs = {}
    /\ "ct" \in Cells(nb)[c][j].binds

C11_ImportBeforeUse ==
  /\ err # "NameError"
  /\ \A c \in 1..top : C11_UsesCt(c) => \E b \in 1..c : C11_ImportsCt(b)

\* C12: no local retry: for each click of Process, whatever the outcome of
\* the workflow, process_input calls ct.dispatch at most once and
\* ct.get_result at most once, and only for the dispatch of that click.
C12_NoRetry ==
  /\ [](/\ click.dispatches <= 1
        /\ click.gets <= click.dispatches)
  /\ [][nb = "yt" =>
          /\ Len(db') <= Len(db) + 1
          /\ Len(db') > Len(db) => click' = [dispatches |-> 1, gets |-> 0]
          /\ click'.gets > click.gets =>
               /\ click'.dispatches = click.dispatches
               /\ dispatch_id = issued[Len(issued)].id
               /\ result' = Lookup(db, dispatch_id)
          /\ click' = click => Len(db') = Len(db) /\ result' = result]_vars

C12_Witness ==
  /\ nb = "yt" /\ pc = Idle /\ err = "TypeError"
  /\ Len(db) = 1 /\ db[1].status = "FAILED"
  /\ click = [dispatches |-> 1, gets |-> 1]

\* C13: when ft_1, the body of to_grayscale and ft_2 all succeed, the
\* dispatch of process_s3_data eventually reaches COMPLETED, the call
\* get_result(dispatch_id, wait=True) eventually returns and the status is
\* printed, and the status printed is COMPLETED.
C13_Failure(r) ==
  \/ r.body["to_grayscale"] = "raised"
  \/ \E k \in DOMAIN r.ft["to_grayscale"] : r.ft["to_grayscale"][k] = "failed"

C13_Settled(i) ==
  /\ nb = "s3" /\ i \in DOMAIN db
  /\ db[i].status = "COMPLETED" \/ C13_Failure(db[i])

C13_Printed ==
  /\ nb = "s3" /\ pc = Idle /\ dispatch_id \in Ids(issued)
  /\ out = [kind |-> "status", val |-> Lookup(db, dispatch_id).status]

C13_EventuallyCompleted ==
  /\ \A i \in 1..MaxDispatch :
       [](nb = "s3" /\ i \in DOMAIN db => <>C13_Settled(i))
  /\ [](nb = "s3" /\ AtStmt("get_result") /\ Bound => <>C13_Printed)
  /\ [][nb = "s3" /\ AtStmt("print_status") /\ pc' # pc /\ ~C13_Failure(result) =>
         /\ result = Lookup(db, dispatch_id)
         /\ out' = [kind |-> "status", val |-> "COMPLETED"]]_vars

C13_Witness ==
  /\ nb = "s3" /\ pc = Idle
  /\ Len(db) = 1 /\ db[1].status = "COMPLETED" /\ ~C13_Failure(db[1])
  /\ out = [kind |-> "status", val |-> "COMPLETED"]

\* C14: in the executor how-to workflow square starts only after identity
\* has completed, and the argument square receives is the value identity
\* returned.
C14_SquareAfterIdentity ==
  nb = "exec" =>
    \A i \in DOMAIN db :
      db[i].phase["square"] # "pending" =>
        /\ db[i].phase["identity"] = "completed"
        /\ db[i].body["identity"] = "returned"
        /\ db[i].out["identity"] = identity(db[i].args["a"])
        /\ ArgVals(nb, db[i], "square") = <<db[i].out["identity"]>>
        /\ db[i].body["square"] = "returned" =>
             db[i].out["square"] = square(db[i].out["identity"])

C14_Witness ==
  /\ nb = "exec" /\ Len(db) >= 1
  /\ db[1].phase["square"] = "running"
  /\ db[1].phase["identity"] = "completed"
  /\ db[1].args["a"] = 3 /\ db[1].out["identity"] = 3

\* C15: a FileTransfer built without an order argument has order BEFORE:
\* ft_1 is performed before the body of to_grayscale starts, never after it.
C15_DefaultOrderBefore ==
  /\ [](nb = "s3" =>
          \A i \in DOMAIN db :
            /\ db[i].body["to_grayscale"] # "idle" =>
                 db[i].ft["to_grayscale"][1] = "done"
            /\ db[i].ft["to_grayscale"][1] = "done" =>
                 fs[Loc(ft_1.to)] \in SourceImages)
  /\ [][nb = "s3" =>
          \A i \in DOMAIN db :
            db'[i].ft["to_grayscale"][1] # db[i].ft["to_grayscale"][1] =>
              /\ db[i].phase["to_grayscale"] = "staging"
              /\ db[i].body["to_grayscale"] = "idle"
              /\ db'[i].body["to_grayscale"] = "idle"]_vars

C15_Witness ==
  /\ nb = "s3" /\ Len(db) >= 1
  /\ db[1].ft["to_grayscale"][1] = "done"
  /\ db[1].phase["to_grayscale"] = "staging"
  /\ db[1].body["to_grayscale"] = "idle"
  /\ fs[Loc(unprocessed_filepath)] = <<"color", "alpha">>

\* C16: the YouTube workflow returns (summary, transcription,
\* output_file_content) and process_input unpacks it in that order: after a
\* successful run session_state["summary"] is the output of
\* summarize_transcription, session_state["transcription"] that of
\* transcribe_audio and session_state["audio_file_content"] that of
\* text_to_speech_voice_clone, and these are the three displayed.
C16_UnpackedInOrder ==
  [][nb = "yt" /\ pc.at = "tail" /\ pc' # pc /\ result.status = "COMPLETED" =>
       LET r == Lookup(db, dispatch_id)
       IN /\ result = r
          /\ session_state' =
               [summary |-> r.out["summarize_transcription"],
                transcription |-> r.out["transcribe_audio"],
                audio_file_content |-> r.out["text_to_speech_voice_clone"]]
          /\ session_state'["summary"][1] = "summary"
          /\ session_state'["transcription"][1] = "text"
          /\ session_state'["audio_file_content"][1] = "speech"
          /\ out'.kind = "results"
          /\ out'.summary = r.out["summarize_transcription"]
          /\ out'.audio = r.out["text_to_speech_voice_clone"]]_vars

C16_Witness ==
  /\ nb = "yt" /\ pc = Idle /\ err = "none"
  /\ Len(db) = 1 /\ db[1].status = "COMPLETED"
  /\ "summary" \in DOMAIN session_state
  /\ session_state["summary"] = db[1].out["summarize_transcription"]
  /\ session_state["transcription"] = db[1].out["transcribe_audio"]
  /\ session_state["audio_file_content"] = db[1].out["text_to_speech_voice_clone"]

\* C17: process_input dispatches only when a speaker file has been uploaded
\* and a non-empty URL entered; a click of Process with either missing
\* dispatches nothing, calls get_result for nothing, displays neither
\* results nor an error, and leaves session_state unchanged.
C17_ClickWithMissingInput ==
  \E speaker \in Uploads, url \in Urls :
    /\ speaker = None \/ url = ""
    /\ MainProcess(speaker, url)

C17_DispatchNeedsBothInputs ==
  [][nb = "yt" =>
       /\ C17_ClickWithMissingInput =>
            /\ db' = db /\ issued' = issued /\ dispatch_id' = dispatch_id
            /\ result' = result /\ retrieved' = retrieved
            /\ session_state' = session_state
            /\ out' = Nothing /\ err' = "none" /\ pc' = Idle
       /\ Len(db') > Len(db) =>
            \E speaker \in Uploads \ {None}, url \in Urls \ {""} :
               /\ MainProcess(speaker, url)
               /\ db'[Len(db')].args["url"] = url
               /\ fs'[Loc(db'[Len(db')].args["user_voice_file"])] = speaker]_vars

C17_Witness ==
  /\ nb = "yt" /\ pc = Idle /\ err = "none"
  /\ Len(db) = 1 /\ db[1].status = "COMPLETED"
  /\ "summary" \in DOMAIN session_state
  /\ out = Nothing /\ click = NoClick

\* C18: when the result retrieval yields no result, process_input shows the
\* error "Something went wrong. Please try again.", displays no summary,
\* transcription or audio, and leaves session_state unchanged.
C18_ErrorBranch ==
  [][nb = "yt" /\ pc.at = "tail" /\ result = NoResult =>
       /\ out' = [kind |-> "error", val |-> "Something went wrong. Please try again."]
       /\ session_state' = session_state
       /\ err' = "none" /\ pc' = Idle]_vars

C18_Witness ==
  /\ nb = "yt" /\ pc = Idle /\ result = NoResult
  /\ out = [kind |-> "error", val |-> "Something went wrong. Please try again."]
  /\ "summary" \in DOMAIN session_state
  /\ session_state["summary"] = <<"summary", "y">>

\* C19: for every terminal outcome of the dispatched workflow, COMPLETED or
\* FAILED, process_input ends by displaying the three results or by
\* displaying the error message, and never raises while unpacking the
\* result.
C19_EndsWithResultsOrError ==
  [][nb = "yt" /\ pc.at = "tail" /\ pc' # pc /\ result.status \in Terminal =>
       /\ err' = "none"
       /\ out'.kind \in {"results", "error"}]_vars

\* C20: at every entry to main(), after any reruns and clicks of Process,
\* the keys "transcription", "summary" and "audio_file_content" of
\* session_state are all absent, or all present and holding the three
\* outputs of one single dispatch; so the branch guarded by "transcription"
\* alone never reads a missing key and never shows a mix of two runs.
C20_Keys == {"transcription", "summary", "audio_file_content"}

C20_OutputsOf(r) ==
  [transcription |-> r.out["transcribe_audio"],
   summary |-> r.out["summarize_transcription"],
   audio_file_content |-> r.out["text_to_speech_voice_clone"]]

C20_AllOrNone ==
  /\ [](nb = "yt" /\ AtStmt("main") =>
          \/ DOMAIN session_state \cap C20_Keys = {}
          \/ /\ DOMAIN session_state = C20_Keys
             /\ \E i \in DOMAIN db :
                  /\ db[i].status = "COMPLETED"
                  /\ db[i].dispatch_id \in retrieved
                  /\ \A k \in C20_Keys : session_state[k] = C20_OutputsOf(db[i])[k])
  /\ [][nb = "yt" /\ AtStmt("main") /\ pc' # pc =>
          /\ err' # "KeyError"
          /\ out'.kind = "results" =>
               \E i \in DOMAIN db :
                 /\ out'.summary = db[i].out["summarize_transcription"]
                 /\ out'.audio = db[i].out["text_to_speech_voice_clone"]
                 /\ out'.transcription \in {db[i].out["transcribe_audio"], <<"hidden">>}]_vars

C20_Witness ==
  /\ nb = "yt" /\ AtStmt("main")
  /\ Len(db) = 2 /\ db[1].status = "COMPLETED" /\ db[2].status = "COMPLETED"
  /\ db[1].args["url"] # db[2].args["url"]
  /\ DOMAIN session_state = C20_Keys
  /\ \A k \in C20_Keys : session_state[k] = C20_OutputsOf(db[2])[k]

\* C21: a rerun of main() in which Process is not clicked dispatches no
\* workflow and does not change session_state; when results of an earlier
\* run are stored it displays exactly those, and when none are stored it
\* displays no results.
C21_Rerun ==
  \E speaker \in Uploads, url \in Urls, show \in BOOLEAN : MainRerun(speaker, url, show)

C21_RerunDisplaysStored ==
  [][nb = "yt" /\ C21_Rerun =>
       /\ db' = db /\ issued' = issued /\ dispatch_id' = dispatch_id
       /\ result' = result /\ retrieved' = retrieved
       /\ session_state' = session_state
       /\ err' = "none"
       /\ IF "transcription" \in DOMAIN session_state
          THEN /\ out'.kind = "results"
               /\ out'.summary = session_state["summary"]
               /\ out'.audio = session_state["audio_file_content"]
               /\ out'.transcription \in {session_state["transcription"], <<"hidden">>}
          ELSE out' = Nothing]_vars

C21_Witness ==
  /\ nb = "yt" /\ pc = Idle /\ err = "none"
  /\ Len(db) = 1 /\ click = NoClick
  /\ "summary" \in DOMAIN session_state
  /\ out.kind = "results"
  /\ out.summary = db[1].out["summarize_transcription"]
  /\ out.transcription = db[1].out["transcribe_audio"]

\* C22: in the YouTube workflow load_wav_file depends on no other task: it
\* can start and finish whatever the state of download_video, load_audio,
\* transcribe_audio and summarize_transcription, and the triple the workflow
\* returns is the same in every interleaving, a function of the arguments
\* and the speaker file alone.
C22_Expected(r) ==
  LET transcription ==
        transcribe_audio(load_audio(download_video(r.args["url"])))
      summary == summarize_transcription(transcription)
  IN <<summary, transcription,
       text_to_speech_voice_clone(summary, fs[Loc(r.args["user_voice_file"])],
                                  r.args["output_file"])>>

C22_WavFileIndependent ==
  nb = "yt" =>
    \A i \in DOMAIN db :
      /\ db[i].status \in NonTerminal /\ db[i].phase["load_wav_file"] = "pending" =>
           ENABLED StartTask(i, "load_wav_file")
      /\ db[i].status \in NonTerminal /\ db[i].phase["load_wav_file"] = "running" =>
           ENABLED FinishTask(i, "load_wav_file", FALSE)
      /\ db[i].status = "COMPLETED" => db[i].result = C22_Expected(db[i])

C22_Witness ==
  /\ nb = "yt" /\ Len(db) = 2
  /\ db[1].status = "COMPLETED" /\ db[1].result = C22_Expected(db[1])
  /\ db[2].phase["load_wav_file"] = "pending"
  /\ db[2].phase["summarize_transcription"] = "completed"

\* C23: for every steps = n >= 0, training ends after exactly n calls of
\* opt.step and returns training_steps = 0, 1, ..., n-1 and a cost_steps of
\* length n; for n = 0 it returns init_params unchanged and two empty lists.
RECURSIVE C23_Steps(_)
C23_Steps(params) ==
  IF params[1] = "step" THEN 1 + C23_Steps(params[2]) ELSE 0

C23_TrainingSteps ==
  nb = "pl" =>
    \A i \in DOMAIN db :
      LET n == db[i].args["steps"]
          r == db[i].out["training"]
      IN /\ db[i].status # "FAILED"
         /\ db[i].status \in NonTerminal =>
              \E m \in Nodes(nb) : ENABLED StartTask(i, m) \/ ENABLED FinishTask(i, m, FALSE)
         /\ db[i].body["training"] = "returned" =>
              /\ n >= 0
              /\ C23_Steps(r[1]) = n
              /\ r[2] = [k \in 1..n |-> k - 1]
              /\ Len(r[3]) = n
              /\ n = 0 => r = <<db[i].out["get_init_params"], <<>>, <<>>>>
         /\ db[i].status = "COMPLETED" => db[i].result = r

C23_Witness ==
  /\ nb = "pl" /\ Len(db) = 2
  /\ db[1].args["steps"] = 0 /\ db[1].status = "COMPLETED"
  /\ db[1].result = <<get_init_params(<<"p0">>), <<>>, <<>>>>
  /\ db[2].args["steps"] = MaxSteps /\ db[2].status = "COMPLETED"
  /\ db[2].result[2] = [k \in 1..MaxSteps |-> k - 1]

\* C24: the parameters training returns are init_params after n successive
\* opt.step updates, and cost_steps[i] is the cost at the parameters after
\* update i (counted from 1), so the last entry is the cost of the returned
\* parameters.
RECURSIVE C24_AfterUpdates(_, _, _, _)
C24_AfterUpdates(opt, cost, params, k) ==
  IF k = 0 THEN params
  ELSE OptStep(opt, cost, C24_AfterUpdates(opt, cost, params, k - 1))

C24_CostAfterStep ==
  nb = "pl" =>
    \A i \in DOMAIN db :
      db[i].body["training"] = "returned" =>
        LET n == db[i].args["steps"]
            r == db[i].out["training"]
            a == ArgVals(nb, db[i], "training")
        IN /\ a[2] = get_init_params(db[i].args["init_params"])
           /\ r[1] = C24_AfterUpdates(a[1], a[3], a[2], n)
           /\ \A k \in 1..n : r[3][k] = Cost(a[3], C24_AfterUpdates(a[1], a[3], a[2], k))
           /\ n > 0 => r[3][n] = Cost(a[3], r[1])

C24_Witness ==
  /\ nb = "pl" /\ Len(db) >= 1
  /\ db[1].args["steps"] = MaxSteps /\ db[1].status = "COMPLETED"
  /\ Len(db[1].result[3]) = MaxSteps
  /\ db[1].result[3][1] # Cost(<<"electron", "cost">>, get_init_params(<<"p0">>))

\* C25: in the PennyLane workflow training starts only after get_optimizer
\* and get_init_params have both completed; neither of the two waits for the
\* other, so they complete in either order, and the workflow result is the
\* same whatever the order.
C25_Started(i, m) == db[i].phase[m] # "pending"

C25_TrainingAfterBoth ==
  nb = "pl" =>
    \A i \in DOMAIN db :
      /\ C25_Started(i, "training") =>
           /\ db[i].phase["get_optimizer"] = "completed"
           /\ db[i].phase["get_init_params"] = "completed"
      /\ \A m \in {"get_optimizer", "get_init_params"} :
           db[i].phase[m] = "pending" => ENABLED StartTask(i, m)
      /\ \A m \in {"get_optimizer", "get_init_params"} :
           db[i].phase[m] = "running" => ENABLED FinishTask(i, m, FALSE)
      /\ db[i].status = "COMPLETED" =>
           db[i].result = training(get_optimizer, get_init_params(db[i].args["init_params"]),
                                   <<"electron", "cost">>, db[i].args["steps"])

\* get_init_params completed while get_optimizer has not started: the order
\* opposite to the one the lattice lists them in
C25_Witness ==
  /\ nb = "pl" /\ Len(db) >= 1
  /\ db[1].phase["get_init_params"] = "completed"
  /\ db[1].phase["get_optimizer"] = "pending"
  /\ db[1].phase["training"] = "pending"

\* C26: the S3 workflow never writes the object at s3_source_path; the only
\* remote object it writes is s3_dest_path, and what it uploads there is the
\* file to_grayscale saved at files[1][0], computed from the file downloaded
\* from s3_source_path.
C26_Remote == {l \in Locations : l[1] = "s3"}

C26_DestFromSource ==
  nb = "s3" =>
    \/ fs[Loc(s3_dest_path)] = Absent
    \/ /\ fs[Loc(s3_source_path)] # Absent
       /\ fs[Loc(unprocessed_filepath)] = fs[Loc(s3_source_path)]
       /\ fs[Loc(processed_filepath)] = rgb2gray(fs[Loc(unprocessed_filepath)])
       /\ fs[Loc(s3_dest_path)] = fs[Loc(processed_filepath)]

C26_WritesOnlyDest ==
  nb = "s3" =>
    /\ fs'[Loc(s3_source_path)] = fs[Loc(s3_source_path)]
    /\ \A l \in C26_Remote :
         fs'[l] # fs[l] =>
           /\ l = Loc(s3_dest_path)
           /\ \E i \in DOMAIN db :
                /\ db[i].body["to_grayscale"] = "returned"
                /\ db[i].files["to_grayscale"][2][1] = processed_filepath.filepath
                /\ db[i].files["to_grayscale"][1][1] = s3_source_path.filepath
           /\ fs'[l] = fs[Loc(processed_filepath)]

C26_SourceNeverWritten == []C26_DestFromSource /\ [][C26_WritesOnlyDest]_vars

C26_Witness ==
  /\ nb = "s3" /\ Len(db) >= 1 /\ db[1].status = "COMPLETED"
  /\ fs[Loc(s3_source_path)] \in SourceImages
  /\ fs[Loc(s3_dest_path)] = rgb2gray(fs[Loc(s3_source_path)])

\* C27: upload_speaker_file returns a pair that is (None, None) or has both
\* components set: with a file uploaded it returns (file, "speaker.wav") and
\* the uploaded bytes are in speaker.wav by then; with none uploaded it
\* returns (None, None) and writes no file.
C27_MainRuns(speaker) ==
  \E url \in Urls :
    \/ MainProcess(speaker, url)
    \/ \E show \in BOOLEAN : MainRerun(speaker, url, show)

C27_PairAndFile ==
  [][nb = "yt" =>
       \A speaker \in Uploads :
         C27_MainRuns(speaker) =>
           LET u == upload_speaker_file(speaker, fs)
           IN /\ speaker # None =>
                   /\ u.ret = <<speaker, speaker_wav>>
                   /\ fs'[Loc(u.ret[2])] = u.ret[1]
                   /\ \A l \in Locations \ {Loc(speaker_wav)} : fs'[l] = fs[l]
              /\ speaker = None =>
                   /\ u.ret = <<None, None>>
                   /\ fs' = fs
                   /\ Len(db') = Len(db)]_vars

C27_Witness ==
  /\ nb = "yt" /\ Len(db) >= 1
  /\ db[1].args["user_voice_file"] = speaker_wav
  /\ fs[Loc(speaker_wav)] = <<"wav">>

====
